---------------------------- MODULE Spec2Model ----------------------------
(***************************************************************************)
(* A model of the calc namespace of Calculus.h (include/Calculus.h): the   *)
(* numerical engine (round, derivative, integral_definite, integral,       *)
(* roots, iterate) and calc::util::Grapher (the setters and display()).    *)
(*                                                                         *)
(* double is modelled by exact rationals in lowest terms, extended with    *)
(* +inf, -inf and NaN and with one finite value "huge" that stands for a   *)
(* double of magnitude >= 2^53, where x - 1 == x.  Binary rounding of the  *)
(* mantissa is not modelled, with one exception: the accumulated error of  *)
(* the loop variable of integral_definite decides the comparison           *)
(* i <= |upper| when i has reached |upper| exactly, and that decision is   *)
(* left open (LoopCondCanFail).  Signed zeros are not distinguished.       *)
(***************************************************************************)
EXTENDS Integers, Sequences, FiniteSets, TLC

VARIABLES
    \* ---- numerical engine: one call of one function
    pc,          \* "call" before the call, "loop" in integral_definite's loop, "done" after
    call,        \* the function called and its arguments
    loop,        \* integral_definite's locals: i, ret and the iterations run so far
    fxref,       \* what the call found behind the lambda's reference to fx
    ret,         \* what the call produced
    \* ---- Grapher: the object's fields
    mTermWidth, mTermHeight, mXrange, mYrange, mFunctions,
    \* ---- Grapher: what the last display() did (nothing once a setter ran)
    out

engineVars == <<pc, call, loop, fxref, ret>>
grapherVars == <<mTermWidth, mTermHeight, mXrange, mYrange, mFunctions, out>>
vars == <<pc, call, loop, fxref, ret, mTermWidth, mTermHeight, mXrange, mYrange, mFunctions, out>>

(***************************************************************************)
(* double                                                                  *)
(***************************************************************************)
Abs(n) ==
    IF n < 0 THEN -n ELSE n

Sgn(n) ==
    IF n < 0 THEN -1 ELSE IF n = 0 THEN 0 ELSE 1

RECURSIVE GCD(_, _)
GCD(a, b) ==
    IF b = 0 THEN a ELSE GCD(b, a % b)

\* C++ integer division: the quotient is truncated toward zero.
TruncDiv(a, b) ==
    Sgn(a) * Sgn(b) * (Abs(a) \div Abs(b))

\* The finite double n/d, in lowest terms with a positive denominator.
Fin(n, d) ==
    LET g == GCD(Abs(n), Abs(d))
    IN  [k |-> "fin", n |-> Sgn(d) * (n \div g), d |-> Abs(d) \div g]

Int2D(n) ==
    [k |-> "fin", n |-> n, d |-> 1]

PosInf ==
    [k |-> "inf", n |-> 1, d |-> 1]

NegInf ==
    [k |-> "inf", n |-> -1, d |-> 1]

NaN ==
    [k |-> "nan", n |-> 0, d |-> 1]

\* A finite double so large that adding or subtracting 1 leaves it unchanged.
Huge ==
    [k |-> "huge", n |-> 1, d |-> 1]

Inf(s) ==
    IF s < 0 THEN NegInf ELSE PosInf

DNeg(x) ==
    IF x.k = "nan" THEN NaN ELSE [x EXCEPT !.n = -x.n]

DAdd(x, y) ==
    IF x.k = "nan" \/ y.k = "nan" THEN NaN
    ELSE IF x.k = "inf" /\ y.k = "inf" THEN (IF x.n = y.n THEN x ELSE NaN)
    ELSE IF x.k = "inf" THEN x
    ELSE IF y.k = "inf" THEN y
    ELSE IF x.k = "huge" /\ y.k = "huge" THEN (IF x.n = y.n THEN x ELSE Int2D(0))
    ELSE IF x.k = "huge" THEN x
    ELSE IF y.k = "huge" THEN y
    ELSE LET g == GCD(x.d, y.d)
             l == (x.d \div g) * y.d
         IN  Fin(x.n * (l \div x.d) + y.n * (l \div y.d), l)

DSub(x, y) ==
    DAdd(x, DNeg(y))

DMul(x, y) ==
    IF x.k = "nan" \/ y.k = "nan" THEN NaN
    ELSE IF x.k = "fin" /\ y.k = "fin"
    THEN LET g1 == GCD(Abs(x.n), y.d)
             g2 == GCD(Abs(y.n), x.d)
         IN  IF x.n = 0 \/ y.n = 0 THEN Int2D(0)
             ELSE Fin((x.n \div g1) * (y.n \div g2), (x.d \div g2) * (y.d \div g1))
    ELSE IF x.n = 0 \/ y.n = 0 THEN NaN
    ELSE IF x.k = "inf" \/ y.k = "inf" THEN Inf(Sgn(x.n) * Sgn(y.n))
    ELSE [k |-> "huge", n |-> Sgn(x.n) * Sgn(y.n), d |-> 1]

DDiv(x, y) ==
    IF x.k = "nan" \/ y.k = "nan" THEN NaN
    ELSE IF x.k = "inf" /\ y.k = "inf" THEN NaN
    ELSE IF x.k = "inf" THEN Inf(x.n * (IF y.n < 0 THEN -1 ELSE 1))
    ELSE IF y.k = "inf" THEN Int2D(0)
    ELSE IF y.n = 0 THEN (IF x.n = 0 THEN NaN ELSE Inf(x.n))
    ELSE IF x.k = "huge" \/ y.k = "huge"
    THEN (IF x.k = y.k THEN Int2D(Sgn(x.n) * Sgn(y.n))
          ELSE IF x.k = "huge" THEN [x EXCEPT !.n = Sgn(x.n) * Sgn(y.n)]
          ELSE Int2D(0))
    ELSE DMul(x, Fin(y.d, y.n))

\* x < y and x <= y of doubles: false as soon as one side is NaN.
DLt(x, y) ==
    IF x.k = "nan" \/ y.k = "nan" THEN FALSE
    ELSE IF x.k = "fin" /\ y.k = "fin" THEN x.n * y.d < y.n * x.d
    ELSE IF x.k = y.k THEN x.n < y.n
    ELSE IF x.k = "inf" THEN x.n < 0
    ELSE IF y.k = "inf" THEN y.n > 0
    ELSE IF x.k = "huge" THEN x.n < 0
    ELSE y.n > 0

DLeq(x, y) ==
    IF x.k = "nan" \/ y.k = "nan" THEN FALSE ELSE ~DLt(y, x)

DAbs(x) ==
    IF x.k = "nan" THEN NaN ELSE [x EXCEPT !.n = Abs(x.n)]

DFloor(x) ==
    IF x.k = "fin" THEN Int2D(x.n \div x.d) ELSE x

\* The conversion double -> long of a finite value: truncation toward zero.
ToLong(x) ==
    TruncDiv(x.n, x.d)

(***************************************************************************)
(* Func: std::function<double(double)>.  The callers' functions are drawn  *)
(* from the polynomials q*x^2 + a*x + b with integer q, a and a double b;  *)
(* a term whose coefficient is 0 is not part of the closure, so a constant *)
(* function never reads its argument.                                      *)
(***************************************************************************)
Poly(q, a, b) ==
    [q |-> q, a |-> a, b |-> b]

Eval(fx, x) ==
    LET lin == IF fx.a = 0 THEN fx.b ELSE DAdd(DMul(Int2D(fx.a), x), fx.b)
    IN  IF fx.q = 0 THEN lin ELSE DAdd(DMul(Int2D(fx.q), DMul(x, x)), lin)

(***************************************************************************)
(* The globals.                                                            *)
(***************************************************************************)
LARGE ==
    10000

SMALL ==
    Fin(1, LARGE)

RECURSIVE Log10(_)
Log10(n) ==
    IF n < 10 THEN 0 ELSE 1 + Log10(n \div 10)

ACCURACY ==
    Log10(LARGE) - 1

RECURSIVE Pow10(_)
Pow10(p) ==
    IF p = 0 THEN 1 ELSE 10 * Pow10(p - 1)


(***************************************************************************)
(* The outcome of a call: it returned v, or it ended without returning.    *)
(***************************************************************************)
Ret(v) ==
    [st |-> "returned", v |-> v]

Crashed(why) ==
    [st |-> why, v |-> NaN]

NoRet ==
    [st |-> "none", v |-> NaN]

(***************************************************************************)
(* derivative() and integral() return a lambda that holds a reference to   *)
(* their own by-value parameter fx.  In derivative(fx)(x) the lambda is    *)
(* called in the full-expression of the call: fx is still alive where      *)
(* parameters are destroyed at the end of the full-expression and gone     *)
(* where the callee destroys them.  F = integral(fx, a) is called later:   *)
(* fx is gone in every build.  What a call through the dead object does is *)
(* open: it may find the bytes intact and behave as fx, stop the program,  *)
(* or produce some other value.                                            *)
(***************************************************************************)
Garbage ==
    {Int2D(2), NaN}

NoRef ==
    [how |-> "none", g |-> NaN]

RefOutcomes ==
    {[how |-> "valid", g |-> NaN], [how |-> "trap", g |-> NaN]}
        \cup {[how |-> "garbage", g |-> v] : v \in Garbage}

(***************************************************************************)
(* round(value, places)                                                    *)
(***************************************************************************)
round(value, places) ==
    LET prod == Int2D(Pow10(places))
    IN  DDiv(DFloor(DAdd(DMul(value, prod), Fin(1, 2))), prod)

(***************************************************************************)
(* derivative(fx): the body of the lambda it returns, and a call of it.    *)
(***************************************************************************)
derivative_lambda(fx, x) ==
    round(DMul(DSub(Eval(fx, DAdd(x, SMALL)), Eval(fx, x)), Int2D(LARGE)), ACCURACY)

derivative(fx, x, ref) ==
    IF ref.how = "valid" THEN Ret(derivative_lambda(fx, x))
    ELSE IF ref.how = "garbage" THEN Ret(ref.g)
    ELSE Crashed("trap")

(***************************************************************************)
(* roots(fx, initial, iter); frames is the room left on the call stack.    *)
(***************************************************************************)
\* roots with the check its TODO asks for: stop once the iteration has converged.
RECURSIVE roots_converged(_, _, _, _, _)
roots_converged(fx, initial, iter, ref, frames) ==
    IF frames = 0 THEN Crashed("stack_overflow")
    ELSE IF iter = 0 \/ Eval(fx, initial) = Int2D(0) THEN Ret(initial)
    ELSE LET d == derivative(fx, initial, ref)
         IN  IF d.st # "returned" THEN d
             ELSE roots_converged(fx, DSub(initial, DDiv(Eval(fx, initial), d.v)),
                                  iter - 1, ref, frames - 1)

RECURSIVE roots(_, _, _, _, _)
roots(fx, initial, iter, ref, frames) ==
    IF frames = 0 THEN Crashed("stack_overflow")
    ELSE IF iter = 0 THEN Ret(initial)
    ELSE LET d == derivative(fx, initial, ref)
         IN  IF d.st # "returned" THEN d
             ELSE roots(fx, DSub(initial, DDiv(Eval(fx, initial), d.v)),
                        iter - 1, ref, frames - 1)

(***************************************************************************)
(* iterate(fx, times, value); frames is the room left on the call stack.   *)
(***************************************************************************)
RECURSIVE iterate(_, _, _, _)
iterate(fx, times, value, frames) ==
    IF frames = 0 THEN Crashed("stack_overflow")
    ELSE IF DLeq(times, Int2D(0)) THEN Ret(value)
    ELSE LET r == iterate(fx, DSub(times, Int2D(1)), value, frames - 1)
         IN  IF r.st # "returned" THEN r ELSE Ret(Eval(fx, r.v))

(***************************************************************************)
(* integral_definite(fx, lower, upper): the loop runs one iteration per    *)
(* step of the model.                                                      *)
(***************************************************************************)
NoLoop ==
    [i |-> NaN, ret |-> NaN, steps |-> 0, fx |-> Poly(0, 0, NaN), upper |-> NaN]

\* double ret = 0; double i = lower;
LoopEntry(fx, lower, upper) ==
    [i |-> lower, ret |-> Int2D(0), steps |-> 0, fx |-> fx, upper |-> upper]

\* i <= std::abs(upper).  Once i is a sum of doubles, its rounding error
\* decides the comparison where the exact sum equals |upper|.
LoopCondCanHold(l) ==
    DLeq(l.i, DAbs(l.upper))

LoopCondCanFail(l) ==
    \/ ~DLeq(l.i, DAbs(l.upper))
    \/ l.steps > 0 /\ l.i = DAbs(l.upper)

\* ret += fx(i)*SMALL; i += SMALL
LoopBody(l) ==
    [l EXCEPT !.ret = DAdd(l.ret, DMul(Eval(l.fx, l.i), SMALL)),
              !.i = DAdd(l.i, SMALL),
              !.steps = l.steps + 1]

\* The result without the sign convention: return round(ret, ACCURACY).
LoopResult_unsigned(l) ==
    round(l.ret, ACCURACY)

\* int sign = (upper < 0)?(-1):(1); return round(ret*sign, ACCURACY);
LoopResult(l) ==
    LET sign == IF DLt(l.upper, Int2D(0)) THEN -1 ELSE 1
    IN  round(DMul(l.ret, Int2D(sign)), ACCURACY)

(***************************************************************************)
(* The calls the engine is driven with.                                    *)
(***************************************************************************)
GridMax ==
    2

MaxIter ==
    3

MaxTimes ==
    3

StackFrames ==
    8

\* Bounds of integration on and between the points of the SMALL grid.
Grid ==
    {Fin(k, 2 * LARGE) : k \in (-2 * GridMax)..(2 * GridMax)}

Identity ==
    Poly(0, 1, Int2D(0))

AreaFuncs ==
    {Identity, Poly(0, 0, Int2D(1)), Poly(0, 0, Int2D(10)),
     Poly(0, 0, Int2D(-1000)), Poly(0, -2000, Fin(1, 2))}

RootFuncs ==
    {Poly(0, 1, Int2D(-5)), Poly(0, 2, Int2D(1)), Poly(1, 0, Int2D(0)),
     Poly(0, 0, Int2D(0)), Poly(0, 0, Int2D(1))}

StepFuncs ==
    {Poly(0, 1, Int2D(1)), Poly(0, 2, Int2D(0)), Poly(0, -1, Fin(1, 2)),
     Poly(0, 0, Int2D(3))}

Times ==
    {Int2D(n) : n \in -1..MaxTimes} \cup {Fin(3, 2), Huge}

IntegralDefiniteCalls ==
    {[op |-> "integral_definite", fx |-> f, lower |-> l, upper |-> u] :
        f \in AreaFuncs, l \in Grid, u \in Grid}
    \cup {[op |-> "integral_definite", fx |-> Identity, lower |-> Int2D(0),
           upper |-> Int2D(u)] : u \in {4, -4}}

IntegralCalls ==
    {[op |-> "integral", fx |-> f, valid_value |-> a, x |-> x] :
        f \in AreaFuncs, a \in Grid, x \in Grid}

RootsCalls ==
    {[op |-> "roots", fx |-> f, initial |-> Int2D(x0), iter |-> n] :
        f \in RootFuncs, x0 \in {0, 1, 2}, n \in 0..MaxIter}

IterateCalls ==
    {[op |-> "iterate", fx |-> f, times |-> t, value |-> v] :
        f \in StepFuncs, t \in Times, v \in {Int2D(0), Int2D(1), Fin(1, 2)}}

Calls ==
    IntegralDefiniteCalls \cup IntegralCalls \cup RootsCalls \cup IterateCalls

(***************************************************************************)
(* Grapher(): the defaults.                                                *)
(***************************************************************************)
NoOutput ==
    [status |-> "idle", screen |-> <<>>, passes |-> <<>>, stray |-> {}, faults |-> {},
     xaxis |-> 0, yaxis |-> 0]

GrapherInit ==
    /\ mTermWidth = 80
    /\ mTermHeight = 24
    /\ mXrange = <<Int2D(-10), Int2D(10)>>
    /\ mYrange = <<Int2D(-10), Int2D(10)>>
    /\ mFunctions = <<>>
    /\ out = NoOutput

(***************************************************************************)
(* The engine: one call, drawn from Calls.                                 *)
(***************************************************************************)
EngineInit ==
    /\ pc = "call"
    /\ call \in Calls
    /\ loop = NoLoop
    /\ fxref = NoRef
    /\ ret = NoRet
    /\ GrapherInit

Call_integral_definite ==
    /\ pc = "call"
    /\ call.op = "integral_definite"
    /\ loop' = LoopEntry(call.fx, call.lower, call.upper)
    /\ pc' = "loop"
    /\ UNCHANGED <<call, fxref, ret, mTermWidth, mTermHeight, mXrange, mYrange, mFunctions, out>>

\* F = integral(fx, valid_value); F(x)
Call_integral ==
    /\ pc = "call"
    /\ call.op = "integral"
    /\ \E r \in RefOutcomes :
        /\ fxref' = r
        /\ IF r.how = "valid"
           THEN /\ loop' = LoopEntry(call.fx, call.valid_value, call.x)
                /\ pc' = "loop"
                /\ ret' = ret
           ELSE /\ loop' = loop
                /\ pc' = "done"
                /\ ret' = IF r.how = "garbage" THEN Ret(r.g) ELSE Crashed("trap")
    /\ UNCHANGED <<call, mTermWidth, mTermHeight, mXrange, mYrange, mFunctions, out>>

LoopStep ==
    /\ pc = "loop"
    /\ LoopCondCanHold(loop)
    /\ loop' = LoopBody(loop)
    /\ UNCHANGED <<pc, call, fxref, ret, mTermWidth, mTermHeight, mXrange, mYrange, mFunctions, out>>

LoopExit ==
    /\ pc = "loop"
    /\ LoopCondCanFail(loop)
    /\ ret' = Ret(LoopResult(loop))
    /\ pc' = "done"
    /\ UNCHANGED <<call, loop, fxref, mTermWidth, mTermHeight, mXrange, mYrange, mFunctions, out>>

Call_roots ==
    /\ pc = "call"
    /\ call.op = "roots"
    /\ \E r \in RefOutcomes :
        /\ fxref' = r
        /\ ret' = roots(call.fx, call.initial, call.iter, r, StackFrames)
    /\ pc' = "done"
    /\ UNCHANGED <<call, loop, mTermWidth, mTermHeight, mXrange, mYrange, mFunctions, out>>

Call_iterate ==
    /\ pc = "call"
    /\ call.op = "iterate"
    /\ ret' = iterate(call.fx, call.times, call.value, StackFrames)
    /\ pc' = "done"
    /\ UNCHANGED <<call, loop, fxref, mTermWidth, mTermHeight, mXrange, mYrange, mFunctions, out>>

EngineNext ==
    \/ Call_integral_definite
    \/ Call_integral
    \/ LoopStep
    \/ LoopExit
    \/ Call_roots
    \/ Call_iterate

EngineSpec ==
    EngineInit /\ [][EngineNext]_vars

(***************************************************************************)
(* Grapher::mMap(long value, long lower, long upper, long newlower,        *)
(* long newupper).  Its arguments arrive converted to long.  A division by *)
(* zero is undefined: dz records it, and v is the result of a build whose  *)
(* division yields 0 instead of stopping the program.                      *)
(***************************************************************************)
mMap(value, lower, upper, newlower, newupper) ==
    [v  |-> (IF upper = lower THEN 0
             ELSE TruncDiv((value - lower) * (newupper - newlower), upper - lower))
            + newlower,
     dz |-> upper = lower]

\* The lambdas of display(): an int pixel to a double x, a double to an int pixel.
pixelToX(val) ==
    mMap(val, 0, mTermWidth - 1, ToLong(mXrange[1]), ToLong(mXrange[2]))

\* xToPixel with the pixel extent pixelToX uses, [0, mTermWidth-1].
xToPixel_lastcol(val) ==
    mMap(ToLong(val), ToLong(mXrange[1]), ToLong(mXrange[2]), 0, mTermWidth - 1)

xToPixel(val) ==
    mMap(ToLong(val), ToLong(mXrange[1]), ToLong(mXrange[2]), 0, mTermWidth)

yToPixel(val) ==
    mMap(ToLong(val), ToLong(mYrange[1]), ToLong(mYrange[2]), mTermHeight, 0)

INT32_MAX ==
    2147483647

\* The range test with its sense lost: nothing is skipped.
InRange_unchecked(result) ==
    TRUE

\* The negation of: result < mYrange[0] || result > mYrange[1]
InRange(result) ==
    ~(DLt(result, mYrange[1]) \/ DLt(mYrange[2], result))

\* The rows the loop body writes in its column: from last_pixel_y up or down to
\* pixel_y when there is a last pixel and it differs, and pixel_y itself.
RowsWritten(last_pixel_y, pixel_y) ==
    IF last_pixel_y # pixel_y /\ last_pixel_y # INT32_MAX
    THEN IF last_pixel_y > pixel_y THEN pixel_y..last_pixel_y ELSE last_pixel_y..pixel_y
    ELSE {pixel_y}

\* One iteration of the loop over the columns, for column i.
Column(fx, i, last_pixel_y) ==
    LET val == pixelToX(i)
        result == Eval(fx, Int2D(val.v))
        pixel_y == yToPixel(result)
    IN  IF InRange(result)
        THEN [plotted |-> TRUE, result |-> result, row |-> pixel_y.v,
              last |-> last_pixel_y, dz |-> val.dz \/ pixel_y.dz]
        ELSE [plotted |-> FALSE, result |-> result, row |-> last_pixel_y,
              last |-> last_pixel_y, dz |-> val.dz]

\* The rows an iteration wrote in its column (none when it skipped the column).
Rows(col) ==
    IF col.plotted THEN RowsWritten(col.last, col.row) ELSE {}

\* The loop over the columns: the iterations for columns from, ..., to-1, run
\* in order from last_pixel_y, and what each did.  (The range is run as its left
\* half and then, from the last_pixel_y that leaves, its right half.)
RECURSIVE Columns(_, _, _, _)
Columns(fx, from, to, last_pixel_y) ==
    IF from >= to THEN <<>>
    ELSE IF to = from + 1 THEN <<Column(fx, from, last_pixel_y)>>
    ELSE LET mid == (from + to) \div 2
             left == Columns(fx, from, mid, last_pixel_y)
         IN  left \o Columns(fx, mid, to, left[Len(left)].row)

\* The screen after the writes of one function's pass.
Plot(screen, log, ch) ==
    [r \in 0..(mTermHeight - 1) |->
        [c \in 0..(mTermWidth - 1) |->
            IF r \in Rows(log[c + 1]) THEN ch ELSE screen[r][c]]]

\* The functions from the k-th on drawn last to first, so that the one
\* registered first is drawn over the others.
RECURSIVE Passes_backward(_, _)
Passes_backward(screen, k) ==
    IF k > Len(mFunctions) THEN [screen |-> screen, logs |-> <<>>]
    ELSE LET log == Columns(mFunctions[k].fx, 0, mTermWidth, INT32_MAX)
             rest == Passes_backward(screen, k + 1)
         IN  [screen |-> Plot(rest.screen, log, mFunctions[k].ch),
              logs |-> <<log>> \o rest.logs]

\* The loop over mFunctions from the k-th on: the screen it leaves and what
\* each pass did.
RECURSIVE Passes(_, _)
Passes(screen, k) ==
    IF k > Len(mFunctions) THEN [screen |-> screen, logs |-> <<>>]
    ELSE LET log == Columns(mFunctions[k].fx, 0, mTermWidth, INT32_MAX)
             rest == Passes(Plot(screen, log, mFunctions[k].ch), k + 1)
         IN  [screen |-> rest.screen, logs |-> <<log>> \o rest.logs]

\* The writes of a pass that fall outside screen[mTermHeight][mTermWidth].
Stray(log) ==
    UNION {{<<r, c>> : r \in Rows(log[c + 1]) \ (0..(mTermHeight - 1))} :
              c \in 0..(mTermWidth - 1)}

(***************************************************************************)
(* display(): the buffer it prints, with the undefined behaviour met on    *)
(* the way (a division by zero in mMap, a write outside screen) recorded   *)
(* in faults and stray.  The buffer is the one of a build where that       *)
(* behaviour goes unnoticed: the division yields 0 and the write lands     *)
(* outside the buffer.                                                     *)
(***************************************************************************)
display ==
    LET H == mTermHeight
        W == mTermWidth
        blank == [r \in 0..(H - 1) |-> [c \in 0..(W - 1) |-> " "]]
        xaxis == yToPixel(Int2D(0))
        yaxis == xToPixel(Int2D(0))
        withY == IF yaxis.v >= 0 /\ yaxis.v < W
                 THEN [r \in 0..(H - 1) |-> [blank[r] EXCEPT ![yaxis.v] = "|"]]
                 ELSE blank
        withX == IF xaxis.v >= 0 /\ xaxis.v < H
                 THEN [withY EXCEPT ![xaxis.v] = [c \in 0..(W - 1) |-> "-"]]
                 ELSE withY
        drawn == Passes(withX, 1)
        stray == UNION {Stray(drawn.logs[k]) : k \in 1..Len(mFunctions)}
        dz == \/ xaxis.dz
              \/ yaxis.dz
              \/ \E k \in 1..Len(mFunctions) : \E j \in 1..W : drawn.logs[k][j].dz
    IN  [status |-> "printed", screen |-> drawn.screen, passes |-> drawn.logs,
         stray |-> stray,
         faults |-> (IF dz THEN {"div_by_zero"} ELSE {})
                        \cup (IF stray # {} THEN {"oob_write"} ELSE {}),
         xaxis |-> xaxis.v, yaxis |-> yaxis.v]

\* What a call of display() ends in: the buffer printed, or, where the build
\* stops the program at the undefined behaviour, nothing printed.
Outcomes(d) ==
    {d} \cup (IF d.faults # {}
              THEN {[NoOutput EXCEPT !.status = "crashed", !.faults = d.faults]}
              ELSE {})

(***************************************************************************)
(* The Grapher is driven with these arguments.                             *)
(***************************************************************************)
MaxFuncs ==
    2

Dimensions ==
    {<<80, 24>>, <<8, 6>>, <<1, 4>>, <<0, 0>>}

Domains ==
    {<<Int2D(-10), Int2D(10)>>, <<Int2D(0), Int2D(4)>>, <<Int2D(2), Int2D(2)>>}

Ranges ==
    {<<Int2D(-10), Int2D(10)>>, <<Int2D(0), Int2D(4)>>, <<Int2D(2), Int2D(2)>>,
     <<Fin(-1, 2), Fin(1, 2)>>}

Zero ==
    Poly(0, 0, Int2D(0))

Square ==
    Poly(1, 0, Int2D(0))

Hundred ==
    Poly(0, 0, Int2D(100))

\* The (function, glyph) pairs addFunction is called with.
Plots ==
    {<<Zero, "#">>, <<Zero, "*">>, <<Identity, "*">>, <<Square, "#">>, <<Hundred, "#">>}

setOutputDimensions(width, height) ==
    /\ mTermWidth' = width
    /\ mTermHeight' = height
    /\ out' = NoOutput
    /\ UNCHANGED <<mXrange, mYrange, mFunctions, pc, call, loop, fxref, ret>>

setDomain(from, to) ==
    /\ mXrange' = <<from, to>>
    /\ out' = NoOutput
    /\ UNCHANGED <<mTermWidth, mTermHeight, mYrange, mFunctions, pc, call, loop, fxref, ret>>

setRange(from, to) ==
    /\ mYrange' = <<from, to>>
    /\ out' = NoOutput
    /\ UNCHANGED <<mTermWidth, mTermHeight, mXrange, mFunctions, pc, call, loop, fxref, ret>>

addFunction(fx, funcChar) ==
    /\ Len(mFunctions) < MaxFuncs
    /\ mFunctions' = Append(mFunctions, [fx |-> fx, ch |-> funcChar])
    /\ out' = NoOutput
    /\ UNCHANGED <<mTermWidth, mTermHeight, mXrange, mYrange, pc, call, loop, fxref, ret>>

clearFunctions ==
    /\ mFunctions' = <<>>
    /\ out' = NoOutput
    /\ UNCHANGED <<mTermWidth, mTermHeight, mXrange, mYrange, pc, call, loop, fxref, ret>>

Display ==
    /\ out' \in Outcomes(display)
    /\ UNCHANGED <<mTermWidth, mTermHeight, mXrange, mYrange, mFunctions,
                   pc, call, loop, fxref, ret>>

GrapherStart ==
    /\ GrapherInit
    /\ pc = "done"
    /\ call = [op |-> "none"]
    /\ loop = NoLoop
    /\ fxref = NoRef
    /\ ret = NoRet

SetOutputDimensions ==
    \E d \in Dimensions : setOutputDimensions(d[1], d[2])

SetDomain ==
    \E x \in Domains : setDomain(x[1], x[2])

SetRange ==
    \E y \in Ranges : setRange(y[1], y[2])

AddFunction ==
    \E p \in Plots : addFunction(p[1], p[2])

GrapherNext ==
    \/ SetOutputDimensions
    \/ SetDomain
    \/ SetRange
    \/ AddFunction
    \/ clearFunctions
    \/ Display

GrapherSpec ==
    GrapherStart /\ [][GrapherNext]_vars

(***************************************************************************)
(* Claims about the engine (EngineSpec).                                   *)
(***************************************************************************)
Done(op) ==
    pc = "done" /\ call.op = op

\* C1: integral_definite(fx, a, a) returns exactly 0, and so does
\* F = integral(fx, a) at a.  The claim is read in the case most favourable
\* to it: the call of F finds fx intact behind its reference.
C1_AnchorIsZero ==
    /\ Done("integral_definite") /\ call.lower = call.upper => ret = Ret(Int2D(0))
    /\ Done("integral") /\ call.x = call.valid_value /\ fxref.how = "valid"
           => ret = Ret(Int2D(0))

\* The number of points lower, lower+SMALL, ... that are <= bound.
GridPoints(lower, bound) ==
    IF DLt(bound, lower) THEN 0
    ELSE DFloor(DMul(DSub(bound, lower), Int2D(LARGE))).n + 1

\* The sum of (a*i + b)*SMALL over the first n points of the grid from lower,
\* in closed form: SMALL * (n*(a*lower + b) + a*SMALL*n*(n-1)/2).
AffineGridSum(fx, lower, n) ==
    DMul(SMALL,
         DAdd(DMul(Int2D(n), Eval(fx, lower)),
              DMul(DMul(Int2D(fx.a), SMALL), Int2D((n * (n - 1)) \div 2))))

RECURSIVE NewtonAfter(_, _, _, _)
NewtonAfter(fx, x0, k, r) ==
    IF k = 0 THEN x0
    ELSE LET x == NewtonAfter(fx, x0, k - 1, r)
         IN  DSub(x, DDiv(Eval(fx, x), derivative(fx, x, r).v))

\* C3: when roots(fx, initial, iter) returns, it returns x after exactly iter
\* updates x <- x - fx(x)/derivative(fx)(x) from initial, whether or not the
\* iteration has converged or diverged on the way; with iter == 0 it returns
\* initial.
C3_RootsFixedCount ==
    Done("roots") =>
        /\ ret.st = "returned"
               => ret.v = NewtonAfter(call.fx, call.initial, call.iter, fxref)
        /\ call.iter = 0 => ret = Ret(call.initial)

C3_Witness ==
    /\ Done("roots")
    /\ call.fx = Poly(1, 0, Int2D(0)) /\ call.initial = Int2D(1) /\ call.iter = 3
    /\ fxref.how = "valid"
    /\ ret = Ret(Fin(1, 8))

\* C4: iterate(fx, times, value) terminates for every finite times; it returns
\* value when times <= 0, and fx(iterate(fx, n-1, value)) for an integer n > 0.
C4_IterateTerminates ==
    Done("iterate") =>
        /\ ret.st = "returned"
        /\ DLeq(call.times, Int2D(0)) => ret.v = call.value
        /\ call.times.k = "fin" /\ call.times.d = 1 /\ call.times.n > 0
               => ret.v = Eval(call.fx, iterate(call.fx, DSub(call.times, Int2D(1)),
                                                call.value, StackFrames).v)

(***************************************************************************)
(* Claims about the Grapher (GrapherSpec).                                 *)
(***************************************************************************)
IsDefault ==
    /\ mTermWidth = 80 /\ mTermHeight = 24
    /\ mXrange = <<Int2D(-10), Int2D(10)>>
    /\ mYrange = <<Int2D(-10), Int2D(10)>>

ScreenRows ==
    0..(mTermHeight - 1)

ScreenCols ==
    0..(mTermWidth - 1)

\* C5: with the defaults and the single function fx(x) = 0 with glyph g,
\* display() prints a buffer whose x-axis row (row 12, where y = 0 maps) holds
\* g in every column and whose y-axis column (column 40) holds '|' in every
\* other row.
C5_ZeroFunctionOnAxis ==
    IsDefault /\ Len(mFunctions) = 1 /\ mFunctions[1].fx = Zero /\ out.status # "idle"
        => /\ out.status = "printed"
           /\ out.xaxis = 12 /\ out.yaxis = 40
           /\ \A c \in 0..79 : out.screen[12][c] = mFunctions[1].ch
           /\ \A r \in (0..23) \ {12} : out.screen[r][40] = "|"

C5_Witness ==
    /\ IsDefault /\ mFunctions = <<[fx |-> Zero, ch |-> "*"]>>
    /\ out.status = "printed"
    /\ out.screen[12][0] = "*" /\ out.screen[12][79] = "*" /\ out.screen[0][40] = "|"

\* Pass k wrote cell (r, c): column c was plotted at row r, or at another row
\* with r between the previously plotted row and it.
Covers(k, r, c) ==
    LET col == out.passes[k][c + 1]
    IN  /\ col.plotted
        /\ \/ r = col.row
           \/ /\ col.last # INT32_MAX
              /\ \/ col.last <= r /\ r <= col.row
                 \/ col.row <= r /\ r <= col.last

\* The character of the last writer of cell (r, c) in the order blank, '|',
\* '-', the functions as registered.
TopLayer(r, c) ==
    LET ks == {k \in 1..Len(mFunctions) : Covers(k, r, c)}
    IN  IF ks # {} THEN mFunctions[CHOOSE k \in ks : \A j \in ks : j <= k].ch
        ELSE IF r = out.xaxis THEN "-"
        ELSE IF c = out.yaxis THEN "|"
        ELSE " "

\* C6: every cell of the printed buffer holds the character of its last writer
\* in the order blank, y-axis, x-axis, functions in registration order.
C6_LastWriterWins ==
    out.status = "printed" =>
        \A r \in ScreenRows : \A c \in ScreenCols : out.screen[r][c] = TopLayer(r, c)

C6_Witness ==
    /\ out.status = "printed"
    /\ Len(mFunctions) = 2 /\ mFunctions[1].ch # mFunctions[2].ch
    /\ \E c \in ScreenCols :
          /\ out.xaxis \in ScreenRows
          /\ Covers(1, out.xaxis, c) /\ Covers(2, out.xaxis, c)
          /\ out.screen[out.xaxis][c] = mFunctions[2].ch

\* fx lies outside [y_min, y_max] at every column pass k sampled.
OutsideEverywhere(k) ==
    \A j \in 1..Len(out.passes[k]) :
        \/ DLt(out.passes[k][j].result, mYrange[1])
        \/ DLt(mYrange[2], out.passes[k][j].result)

\* C7: a function whose value is out of range at every sampled column is not
\* drawn; when that is so of every registered function the printed buffer
\* holds only axis characters and blanks.
C7_OutOfRangeNotDrawn ==
    out.status = "printed" =>
        /\ \A k \in 1..Len(mFunctions) : OutsideEverywhere(k) =>
              \A j \in 1..Len(out.passes[k]) : ~out.passes[k][j].plotted
        /\ (\A k \in 1..Len(mFunctions) : OutsideEverywhere(k)) =>
              /\ out.stray = {}
              /\ \A r \in ScreenRows : \A c \in ScreenCols :
                    out.screen[r][c] \in {" ", "|", "-"}

C7_Witness ==
    /\ IsDefault /\ mFunctions = <<[fx |-> Hundred, ch |-> "#"]>>
    /\ out.status = "printed"
    /\ OutsideEverywhere(1)
    /\ out.screen[12][0] = "-" /\ out.screen[0][40] = "|" /\ out.screen[0][0] = " "

\* A denominator display() divides by is zero.
ZeroDenominator ==
    \/ ToLong(mXrange[1]) = ToLong(mXrange[2])
    \/ ToLong(mYrange[1]) = ToLong(mYrange[2])
    \/ mTermWidth = 1 /\ mFunctions # <<>>

\* C8: display() on a configuration with a zero denominator ends in a reported
\* error, never in a division by zero.
C8_FailFast ==
    out.status # "idle" /\ ZeroDenominator
        => out.status = "error" /\ "div_by_zero" \notin out.faults

\* C9: in the last function's pass, a column plotted at a row that differs from
\* the previously plotted row holds the glyph in every row from the one to the
\* other inclusive; the first column plotted holds it in its own row only.
C9_Interpolation ==
    out.status = "printed" /\ mFunctions # <<>> =>
        LET k == Len(mFunctions)
            g == mFunctions[k].ch
        IN  \A c \in ScreenCols :
                LET col == out.passes[k][c + 1]
                    lo == IF col.last < col.row THEN col.last ELSE col.row
                    hi == IF col.last < col.row THEN col.row ELSE col.last
                IN  col.plotted =>
                        IF col.last = INT32_MAX
                        THEN /\ col.row \in ScreenRows
                             /\ out.screen[col.row][c] = g
                             /\ k = 1 => \A r \in ScreenRows \ {col.row} :
                                            out.screen[r][c] # g
                        ELSE \A r \in lo..hi :
                                r \in ScreenRows /\ out.screen[r][c] = g

\* C10: with positive width and height and min < max for domain and range,
\* every write of display() is inside the buffer.
C10_WritesInBounds ==
    /\ out.status # "idle"
    /\ mTermWidth > 0 /\ mTermHeight > 0
    /\ DLt(mXrange[1], mXrange[2]) /\ DLt(mYrange[1], mYrange[2])
    => out.stray = {} /\ "oob_write" \notin out.faults

=============================================================================
